---- MODULE Spec2Model ----
(***************************************************************************)
(* A model of FindDriveData.py, the Maine AAA driving-lesson availability  *)
(* scraper: the 24-hour to 12-hour conversion, the time rule, the SQLite   *)
(* table of seen appointments, and the polling loop around run_scraper.    *)
(*                                                                         *)
(* Python strings are sequences of one-character strings, so that the      *)
(* formatting of convert_24hr_to_12hr and the parsing of strptime are      *)
(* modelled by what they do to the characters.  A function that can raise  *)
(* returns a record whose field exc tells whether it raised.               *)
(***************************************************************************)
EXTENDS Integers, Sequences, FiniteSets, TLC

\* ------------------------------------------------------------------ bounds

\* Longest malformed time string the pure-function specification draws.
MaxTimeLen == 4

\* Longest list of slot elements one extraction returns (sequential runs).
MaxBatch == 3

\* Longest list of slot elements one extraction returns (concurrent runs).
MaxBatchConc == 1

\* Longest list of slot elements one extraction returns (runs checked for
\* progress).
MaxBatchLive == 2

\* --------------------------------------------------------------- characters

Digits == <<"0", "1", "2", "3", "4", "5", "6", "7", "8", "9">>

DigitSet == {Digits[i] : i \in 1..10}

IsDigit(c) == c \in DigitSet

DigitVal(c) == (CHOOSE i \in 1..10 : Digits[i] = c) - 1

\* s[i], or "" past the end of s (no character equals "").
At(s, i) == IF i >= 1 /\ i <= Len(s) THEN s[i] ELSE ""

\* Python's s[:n].
Prefix(s, n) == SubSeq(s, 1, IF Len(s) < n THEN Len(s) ELSE n)

\* Python's s[n:].
Suffix(s, n) == SubSeq(s, n + 1, Len(s))

\* Python's str(n) for an integer n.
RECURSIVE StrNat(_)
StrNat(n) == IF n < 10 THEN <<Digits[n + 1]>>
             ELSE StrNat(n \div 10) \o <<Digits[(n % 10) + 1]>>

Str(n) == IF n < 0 THEN <<"-">> \o StrNat(0 - n) ELSE StrNat(n)

\* Python's int(s) for a string s of at most two characters: surrounding
\* blanks are stripped, one sign is allowed, the rest must be digits.
PyInt(s) ==
    LET raise == [exc |-> TRUE, val |-> 0]
        ret(v) == [exc |-> FALSE, val |-> v]
    IN  IF Len(s) = 1 /\ IsDigit(s[1]) THEN ret(DigitVal(s[1]))
        ELSE IF Len(s) = 2 /\ IsDigit(s[1]) /\ IsDigit(s[2])
             THEN ret(10 * DigitVal(s[1]) + DigitVal(s[2]))
        ELSE IF Len(s) = 2 /\ s[1] \in {" ", "+"} /\ IsDigit(s[2])
             THEN ret(DigitVal(s[2]))
        ELSE IF Len(s) = 2 /\ s[1] = "-" /\ IsDigit(s[2])
             THEN ret(0 - DigitVal(s[2]))
        ELSE IF Len(s) = 2 /\ IsDigit(s[1]) /\ s[2] = " "
             THEN ret(DigitVal(s[1]))
        ELSE raise

\* ------------------------------------------------------ convert_24hr_to_12hr

\* Line 94 written with a remainder: hour 12 and hour 0 both give 0.
Hours12Mod(hours) == hours % 12

\* The hour of the 12-hour clock, line 94.
Hours12(hours) ==
    IF 1 <= hours /\ hours <= 12 THEN hours
    ELSE IF hours > 12 THEN hours - 12
    ELSE 12

\* The period, line 93.
Period(hours) == IF hours < 12 THEN <<"A", "M">> ELSE <<"P", "M">>

\* Lines 93-95, given what int(time_str[:2]) returned or that it raised.
Format12(h, minutes) ==
    IF h.exc THEN [exc |-> TRUE, val |-> <<>>]
    ELSE [exc |-> FALSE,
          val |-> Str(Hours12(h.val)) \o <<":">> \o minutes \o <<" ">>
                  \o Period(h.val)]

\* f"{hours}:{minutes} {period}", or the ValueError of int().
convert_24hr_to_12hr(time_str) ==
    Format12(PyInt(Prefix(time_str, 2)), Suffix(time_str, 2))

\* ---------------------------------------------------------------- strptime

\* The directive %I is the regular expression 1[0-2]|0[1-9]|[1-9]: whether
\* an alternative of it that is n characters long matches at the start of s.
HourMatches(s, n) ==
    IF n = 2
    THEN \/ At(s, 1) = "1" /\ At(s, 2) \in {"0", "1", "2"}
         \/ At(s, 1) = "0" /\ IsDigit(At(s, 2)) /\ At(s, 2) # "0"
    ELSE IsDigit(At(s, 1)) /\ At(s, 1) # "0"

\* The directive %M is [0-5]\d|\d: whether the alternative that is n
\* characters long matches at position i.
MinuteMatches(s, i, n) ==
    IF n = 2
    THEN At(s, i) \in {"0", "1", "2", "3", "4", "5"} /\ IsDigit(At(s, i + 1))
    ELSE IsDigit(At(s, i))

\* The number of blanks at position i and after.
RECURSIVE Blanks(_, _)
Blanks(s, i) == IF At(s, i) = " " THEN 1 + Blanks(s, i + 1) ELSE 0

\* (am|pm), case ignored, after b blanks at position i: the position after
\* the match, 0 when there is none.
PeriodAfter(s, i, b) ==
    IF b >= 1 /\ At(s, i + b) \in {"A", "a", "P", "p"}
        /\ At(s, i + b + 1) \in {"M", "m"}
    THEN i + b + 2
    ELSE 0

\* \s+(am|pm) at position i.
PeriodEnd(s, i) == PeriodAfter(s, i, Blanks(s, i))

\* The ways to match %I:%M, as <<hour length, minute length>>, in the order
\* a backtracking matcher tries them.
Ways == <<<<2, 2>>, <<2, 1>>, <<1, 2>>, <<1, 1>>>>

\* Whether %I:%M\s+%p matches a prefix of s in way w.
WayMatches(s, w) ==
    /\ HourMatches(s, w[1])
    /\ At(s, w[1] + 1) = ":"
    /\ MinuteMatches(s, w[1] + 2, w[2])
    /\ PeriodEnd(s, w[1] + 2 + w[2]) # 0

\* The least number of a set of positive numbers, 0 for the empty set.
First(S) == IF S = {} THEN 0 ELSE CHOOSE x \in S : \A y \in S : x <= y

\* The first way in which the format matches a prefix of s, 0 when none does.
FirstMatch(s) == First({k \in 1..Len(Ways) : WayMatches(s, Ways[k])})

\* The decimal value of the digits s[i..i+n-1].
RECURSIVE DigitsVal(_, _, _)
DigitsVal(s, i, n) ==
    IF n = 0 THEN 0
    ELSE 10 * DigitsVal(s, i, n - 1) + DigitVal(s[i + n - 1])

\* The hour of the day of hour h of the 12-hour clock.
Hour24(h, pm) ==
    IF pm THEN (IF h # 12 THEN h + 12 ELSE h) ELSE (IF h = 12 THEN 0 ELSE h)

\* The datetime of a match that ends before position e, or the ValueError
\* for unconverted data after it.
Parsed(s, hl, ml, e) ==
    IF e # Len(s) + 1 THEN [exc |-> TRUE, hour |-> 0, minute |-> 0]
    ELSE [exc |-> FALSE,
          hour |-> Hour24(DigitsVal(s, 1, hl), At(s, e - 2) \in {"P", "p"}),
          minute |-> DigitsVal(s, hl + 2, ml)]

\* The datetime of the match in way number k, or the ValueError for no match.
ParsedWay(s, k) ==
    IF k = 0 THEN [exc |-> TRUE, hour |-> 0, minute |-> 0]
    ELSE Parsed(s, Ways[k][1], Ways[k][2],
                PeriodEnd(s, Ways[k][1] + 2 + Ways[k][2]))

\* datetime.strptime(s, "%I:%M %p"): the hour and minute of the datetime (its
\* date is always 1900-01-01), or the ValueError.
strptime(s) == ParsedWay(s, FirstMatch(s))

\* ------------------------------------------------- is_time_greater_or_equal

\* Line 78 with > for >=: a tie is not accepted.
DatetimeGT(time1_dt, time2_dt) ==
    IF time1_dt.exc \/ time2_dt.exc THEN [exc |-> TRUE, val |-> FALSE]
    ELSE [exc |-> FALSE,
          val |-> \/ time1_dt.hour > time2_dt.hour
                  \/ /\ time1_dt.hour = time2_dt.hour
                     /\ time1_dt.minute > time2_dt.minute]

\* Line 78: time1_dt >= time2_dt, for two datetimes of the same date.
DatetimeGE(time1_dt, time2_dt) ==
    IF time1_dt.exc \/ time2_dt.exc THEN [exc |-> TRUE, val |-> FALSE]
    ELSE [exc |-> FALSE,
          val |-> \/ time1_dt.hour > time2_dt.hour
                  \/ /\ time1_dt.hour = time2_dt.hour
                     /\ time1_dt.minute >= time2_dt.minute]

is_time_greater_or_equal(time1, time2) ==
    DatetimeGE(strptime(time1), strptime(time2))

\* ------------------------------------------------------------ configuration

WEEKDAY_START_TIME == <<"0", "4", ":", "3", "0", " ", "P", "M">>

WEEKEND_START_TIME == <<"0", "9", ":", "0", "0", " ", "A", "M">>

\* Line 187 with the two cutoffs exchanged.
start_time_limit_swapped(day_of_week) ==
    IF day_of_week \in {"Sat", "Sun"} THEN WEEKDAY_START_TIME
    ELSE WEEKEND_START_TIME

\* Line 187: the cutoff of the day of the week.
start_time_limit(day_of_week) ==
    IF day_of_week \in {"Sat", "Sun"} THEN WEEKEND_START_TIME
    ELSE WEEKDAY_START_TIME

\* Line 188, given what convert_24hr_to_12hr returned or that it raised.
Compare(start_time, limit) ==
    IF start_time.exc THEN [exc |-> TRUE, val |-> FALSE]
    ELSE is_time_greater_or_equal(start_time.val, limit)

\* Lines 182 and 186-189 for one start time: whether the record passes the
\* time rule, or that an exception was raised on the way.
TimeRule(day_of_week, starttime) ==
    Compare(convert_24hr_to_12hr(starttime), start_time_limit(day_of_week))

\* ------------------------------------------------------------------- inputs

\* A string by its characters.
T4(a, b, c, d) == <<a, b, c, d>>

\* An <a id='btnSelectAppt'> element by the four attributes run_scraper reads.
\* data-appointmentdatelongstring is kept as the list of its comma-separated
\* fields, which is what split(",") makes of it: the first is the day.
Element(day, slot, starttime, endtime, instructor) ==
    [appointment_string |-> <<day, slot>>, starttime |-> starttime,
     endtime |-> endtime, instructor |-> instructor]

MonA == Element("Mon", "A", T4("1", "6", "0", "0"), T4("1", "7", "0", "0"), "I1")

SatB == Element("Sat", "B", T4("0", "8", "0", "0"), T4("0", "9", "0", "0"), "I1")

SunC == Element("Sun", "C", T4("1", "0", "0", "0"), T4("1", "1", "0", "0"), "I1")

SatB10 == Element("Sat", "B", T4("1", "0", "0", "0"), T4("1", "1", "0", "0"), "I2")

\* A start time that is no number.
SatBad == Element("Sat", "B", T4("1", "x", "0", "0"), T4("1", "1", "0", "0"), "I1")

\* The slot of SunC offered by another instructor, with a start hour of 24
\* and an end hour of 25.
SunC24 == Element("Sun", "C", T4("2", "4", "0", "0"), T4("2", "5", "0", "0"), "I2")

Elements == {MonA, SatB, SunC, SatB10, SatBad, SunC24}

ConcElements == {SunC, SatB10}

\* Every list of at most n of the elements.
Batches(elems, n) == UNION {[1..k -> elems] : k \in 0..n}

Idents == {e.appointment_string : e \in Elements}

\* The processes that may run the script against one appointments.db.
Procs == {1, 2}

\* The times of the pure-function specification: every HHMM of the 24-hour
\* clock, and every string of at most MaxTimeLen of these characters.
TimeChars == {"0", "1", "2", "6", "9", "x", " "}

ClockTimes ==
    {<<Digits[(h \div 10) + 1], Digits[(h % 10) + 1],
       Digits[(m \div 10) + 1], Digits[(m % 10) + 1]>> :
        h \in 0..23, m \in 0..59}

TimeStrs == ClockTimes \cup UNION {[1..k -> TimeChars] : k \in 0..MaxTimeLen}

Days == {"Mon", "Tue", "Wed", "Thu", "Fri", "Sat", "Sun"}

\* -------------------------------------------------------------------- state

VARIABLES
    store,                 \* the committed rows of table appointments
    pc,                    \* each process's place in the main loop
    driver,                \* whether run_scraper's browser session is open
    conn,                  \* whether run_scraper's connection is open
    pending,               \* the rows a connection inserted and did not commit
    date_elements,         \* the elements found by the extraction
    idx,                   \* the place of the for loop in date_elements
    appointments_to_send,  \* the cycle's notification list
    err,                   \* the exception caught at line 207, or "none"
    notifyCount,           \* per identifier, the send_email calls that listed it
    deliveredCount,        \* per identifier, those of them that were delivered
    store0,                \* history: the store when the cycle's extraction
                           \* ended, in elements or in an exception
    prevBatch,             \* prophecy: the elements of the cycle that completed
                           \* last, when the site is to offer them again
    rerun,                 \* history: the cycle repeats the last one's elements
    emails,                \* history: the lists send_email got in this cycle
    slept,                 \* history: time.sleep returned, or the process was
                           \* launched, since run_scraper was last called
    arg_time,              \* pure functions: the 24-hour string drawn
    arg_day,               \* pure functions: the day drawn
    stage,                 \* pure functions: what has been applied
    result                 \* pure functions: the value returned

procVars == <<pc, driver, conn, pending, date_elements, idx,
              appointments_to_send, err, store0, prevBatch, rerun,
                   emails, slept>>

sharedVars == <<store, notifyCount, deliveredCount>>

pureVars == <<arg_time, arg_day, stage, result>>

vars == <<store, pc, driver, conn, pending, date_elements, idx,
          appointments_to_send, err, notifyCount, deliveredCount, store0,
          prevBatch, rerun, emails, slept, arg_time, arg_day, stage, result>>

\* The value of prevBatch when the next extraction is free to return any
\* elements: a state with this value has every successor of the program, so
\* the states that foretell a repetition take no behaviour away.
NoBatch == {}

NoResult == [exc |-> FALSE, val |-> <<>>]

ProcInit ==
    /\ pc = [p \in Procs |-> "start"]
    /\ driver = [p \in Procs |-> FALSE]
    /\ conn = [p \in Procs |-> FALSE]
    /\ pending = [p \in Procs |-> {}]
    /\ date_elements = [p \in Procs |-> <<>>]
    /\ idx = [p \in Procs |-> 1]
    /\ appointments_to_send = [p \in Procs |-> <<>>]
    /\ err = [p \in Procs |-> "none"]
    /\ store0 = [p \in Procs |-> {}]
    /\ prevBatch = [p \in Procs |-> NoBatch]
    /\ rerun = [p \in Procs |-> FALSE]
    /\ emails = [p \in Procs |-> <<>>]
    /\ slept = [p \in Procs |-> TRUE]

\* appointments.db does not exist before the first run.
Init ==
    /\ ProcInit
    /\ store = {}
    /\ notifyCount = [i \in Idents |-> 0]
    /\ deliveredCount = [i \in Idents |-> 0]
    /\ arg_time = <<>>
    /\ arg_day = "Mon"
    /\ stage = "off"
    /\ result = NoResult

\* ------------------------------------------------------------ the database

\* Lines 191-192 reading the rows as they were when the cycle began.
VisibleAtStart(p) == store0[p]

\* Line 191-192: the row fetchone() returns, seen through connection p: the
\* committed rows and the rows p itself has not committed yet.
Visible(p) == store \cup pending[p]

RowsOf(rows, appointment_string) ==
    {r \in rows : r.appointment_string = appointment_string}

\* Lines 196-200: INSERT OR IGNORE leaves the table alone when a row with
\* the UNIQUE appointment_string is there; the rows to add otherwise.  The
\* AUTOINCREMENT id of a row is left out: nothing reads it.
InsertOrIgnore(rows, appointment_string, start_time, end_time, instructor) ==
    IF RowsOf(rows, appointment_string) # {} THEN {}
    ELSE {[appointment_string |-> appointment_string,
           start_time_12hr |-> start_time,
           end_time_12hr |-> end_time,
           instructor |-> instructor,
           sent_email |-> 1]}

\* Line 195: the text of one appointment in the email, by its two parts.
Entry(appointment_string, instructor) ==
    [appointment_string |-> appointment_string, instructor |-> instructor]

\* Line 195 with insert(0, entry) for append(entry).
ListPrepend(list, entry) == <<entry>> \o list

\* Line 195: appointments_to_send.append(entry).
ListAppend(list, entry) == Append(list, entry)

\* ------------------------------------------------------------- run_scraper

\* The for loop goes to its next element, or ends.
Continue(p) ==
    /\ idx' = [idx EXCEPT ![p] = idx[p] + 1]
    /\ pc' = [pc EXCEPT ![p] = IF idx[p] + 1 > Len(date_elements[p])
                                THEN "notify" ELSE "filter"]

\* Lines 207-209 falling through to line 203: the handler logs the exception
\* and the cycle goes on to email its list.
ExceptThenNotify(p, e) ==
    /\ err' = [err EXCEPT ![p] = e]
    /\ pc' = [pc EXCEPT ![p] = "notify"]

\* An exception inside the try block: lines 207-209, then the finally block.
Except(p, e) ==
    /\ err' = [err EXCEPT ![p] = e]
    /\ pc' = [pc EXCEPT ![p] = "finally"]

\* Lines 217 and 151-159: a cycle begins and the browser session starts.
StartDriver(p) ==
    /\ pc[p] = "start"
    /\ pc' = [pc EXCEPT ![p] = "init_db"]
    /\ driver' = [driver EXCEPT ![p] = TRUE]
    /\ slept' = [slept EXCEPT ![p] = FALSE]
    /\ UNCHANGED <<conn, pending, date_elements, idx, appointments_to_send,
                   err, store0, prevBatch, rerun, emails>>
    /\ UNCHANGED <<sharedVars, pureVars>>

\* webdriver.Chrome raises: run_scraper is left at line 159, outside its try,
\* and the main loop's handler (lines 221-223) goes round without sleeping.
StartDriverFail(p) ==
    /\ pc[p] = "start"
    /\ pc' = [pc EXCEPT ![p] = "start"]
    /\ slept' = [slept EXCEPT ![p] = FALSE]
    /\ UNCHANGED <<driver, conn, pending, date_elements, idx,
                   appointments_to_send, err, store0, prevBatch, rerun, emails>>
    /\ UNCHANGED <<sharedVars, pureVars>>

\* Lines 161-162: initialize_database() opens appointments.db.
InitDatabase(p) ==
    /\ pc[p] = "init_db"
    /\ pc' = [pc EXCEPT ![p] = "extract"]
    /\ conn' = [conn EXCEPT ![p] = TRUE]
    /\ UNCHANGED <<driver, pending, date_elements, idx,
                   appointments_to_send, err, store0, prevBatch, rerun,
                   emails, slept>>
    /\ UNCHANGED <<sharedVars, pureVars>>

\* initialize_database() raises with no handler at lines 221-223: the
\* exception leaves the while loop and the script ends.
InitDatabaseFailExits(p) ==
    /\ pc[p] = "init_db"
    /\ pc' = [pc EXCEPT ![p] = "exit"]
    /\ UNCHANGED <<driver, conn, pending, date_elements, idx,
                   appointments_to_send, err, store0, prevBatch, rerun,
                   emails, slept>>
    /\ UNCHANGED <<sharedVars, pureVars>>

\* initialize_database() raises, outside the try: the session of line 159 is
\* never quit, and the main loop's handler goes round without sleeping.
InitDatabaseFail(p) ==
    /\ pc[p] = "init_db"
    /\ pc' = [pc EXCEPT ![p] = "start"]
    /\ UNCHANGED <<driver, conn, pending, date_elements, idx,
                   appointments_to_send, err, store0, prevBatch, rerun,
                   emails, slept>>
    /\ UNCHANGED <<sharedVars, pureVars>>

\* Lines 165-178: log in, reach the page, find the elements.
Extract(p, batches) ==
    /\ pc[p] = "extract"
    /\ \E batch \in (IF prevBatch[p] = NoBatch THEN batches ELSE prevBatch[p]) :
         /\ date_elements' = [date_elements EXCEPT ![p] = batch]
         /\ rerun' = [rerun EXCEPT ![p] = (batch \in prevBatch[p])]
         /\ pc' = [pc EXCEPT ![p] = IF batch = <<>> THEN "notify" ELSE "filter"]
    /\ idx' = [idx EXCEPT ![p] = 1]
    /\ appointments_to_send' = [appointments_to_send EXCEPT ![p] = <<>>]
    /\ store0' = [store0 EXCEPT ![p] = store]
    /\ prevBatch' = [prevBatch EXCEPT ![p] = NoBatch]
    /\ UNCHANGED <<driver, conn, pending, err, emails, slept>>
    /\ UNCHANGED <<sharedVars, pureVars>>

\* A navigation failure or a timeout of lines 166-177.
ExtractFail(p) ==
    /\ pc[p] = "extract"
    /\ Except(p, "ExtractionError")
    /\ prevBatch' = [prevBatch EXCEPT ![p] = NoBatch]
    /\ store0' = [store0 EXCEPT ![p] = store]
    /\ UNCHANGED <<driver, conn, pending, date_elements, idx,
                   appointments_to_send, rerun, emails, slept>>
    /\ UNCHANGED <<sharedVars, pureVars>>

\* Line 186: split(",")[0].strip().  The fields of the elements drawn carry
\* no blanks, so strip() has nothing to remove.
DayOfWeek(appointment_string) == appointment_string[1]

\* Lines 182-189 for one element: "raise" when a conversion or the
\* comparison raises, else "pass" or "reject".
FilterOutcome(element, end_time) ==
    IF end_time.exc THEN "raise"
    ELSE IF TimeRule(DayOfWeek(element.appointment_string),
                     element.starttime).exc THEN "raise"
    ELSE IF TimeRule(DayOfWeek(element.appointment_string),
                     element.starttime).val THEN "pass"
    ELSE "reject"

\* Lines 181-189 without the continue of line 189: an element whose start
\* time is before the cutoff goes on to the SELECT like one that passed.
FilterElementAll(p, outcome) ==
    IF outcome = "raise" THEN Except(p, "ValueError") /\ UNCHANGED idx
    ELSE pc' = [pc EXCEPT ![p] = "select"] /\ UNCHANGED <<idx, err>>

\* Lines 181-189 for the element at idx: the attributes are read, both
\* times converted, the start time compared with the cutoff of the day.
FilterElement(p, outcome) ==
    IF outcome = "raise" THEN Except(p, "ValueError") /\ UNCHANGED idx
    ELSE IF outcome = "reject" THEN Continue(p) /\ UNCHANGED err
    ELSE pc' = [pc EXCEPT ![p] = "select"] /\ UNCHANGED <<idx, err>>

\* Lines 182-189 for each element an extraction can return.  The outcome
\* depends on the element alone, so it is worked out once for each.
Outcomes ==
    [element \in Elements |->
        FilterOutcome(element, convert_24hr_to_12hr(element.endtime))]

Filter(p) ==
    /\ pc[p] = "filter"
    /\ FilterElement(p, Outcomes[date_elements[p][idx[p]]])
    /\ UNCHANGED <<driver, conn, pending, date_elements,
                   appointments_to_send, store0, prevBatch, rerun, emails, slept>>
    /\ UNCHANGED <<sharedVars, pureVars>>

\* get_attribute raises (the element went stale), lines 181-184.
FilterFail(p) ==
    /\ pc[p] = "filter"
    /\ Except(p, "WebDriverException")
    /\ UNCHANGED <<driver, conn, pending, date_elements, idx,
                   appointments_to_send, store0, prevBatch, rerun, emails, slept>>
    /\ UNCHANGED <<sharedVars, pureVars>>

\* Lines 191-193 left out: every record that passes the time rule is taken
\* for new, and only INSERT OR IGNORE keeps the table free of duplicates.
SelectNoCheck(p) ==
    /\ pc[p] = "select"
    /\ pc' = [pc EXCEPT ![p] = "insert"]
    /\ UNCHANGED <<driver, conn, pending, date_elements, idx,
                   appointments_to_send, err, store0, prevBatch, rerun,
                   emails, slept>>
    /\ UNCHANGED <<sharedVars, pureVars>>

\* Lines 191-193: the SELECT, and continue when a row came back.
Select(p) ==
    /\ pc[p] = "select"
    /\ LET element == date_elements[p][idx[p]]
       IN  IF RowsOf(Visible(p), element.appointment_string) # {}
           THEN Continue(p)
           ELSE pc' = [pc EXCEPT ![p] = "insert"] /\ UNCHANGED idx
    /\ UNCHANGED <<driver, conn, pending, date_elements,
                   appointments_to_send, err, store0, prevBatch, rerun,
                   emails, slept>>
    /\ UNCHANGED <<sharedVars, pureVars>>

\* The SELECT raises.
SelectFail(p) ==
    /\ pc[p] = "select"
    /\ Except(p, "sqlite3.Error")
    /\ UNCHANGED <<driver, conn, pending, date_elements, idx,
                   appointments_to_send, store0, prevBatch, rerun, emails, slept>>
    /\ UNCHANGED <<sharedVars, pureVars>>

\* Lines 195-200: the entry is appended, then the row inserted in a
\* transaction of connection p.  SQLite lets one connection write at a time:
\* the INSERT waits while another connection holds uncommitted rows.
Insert(p) ==
    /\ pc[p] = "insert"
    /\ \A q \in Procs \ {p} : pending[q] = {}
    /\ LET element == date_elements[p][idx[p]]
           start_time == convert_24hr_to_12hr(element.starttime).val
           end_time == convert_24hr_to_12hr(element.endtime).val
       IN  /\ appointments_to_send' =
                [appointments_to_send EXCEPT ![p] =
                   ListAppend(@, Entry(element.appointment_string,
                                       element.instructor))]
           /\ pending' =
                [pending EXCEPT ![p] =
                   @ \cup InsertOrIgnore(Visible(p), element.appointment_string,
                                         start_time, end_time,
                                         element.instructor)]
    /\ pc' = [pc EXCEPT ![p] = "commit"]
    /\ UNCHANGED <<driver, conn, date_elements, idx, err, store0,
                   prevBatch, rerun, emails, slept>>
    /\ UNCHANGED <<sharedVars, pureVars>>

\* The INSERT raises (an I/O error, or "database is locked" when the wait
\* for the other connection times out); the entry is already appended.
InsertFail(p) ==
    /\ pc[p] = "insert"
    /\ LET element == date_elements[p][idx[p]]
       IN  appointments_to_send' =
             [appointments_to_send EXCEPT ![p] =
                ListAppend(@, Entry(element.appointment_string,
                                    element.instructor))]
    /\ Except(p, "sqlite3.Error")
    /\ UNCHANGED <<driver, conn, pending, date_elements, idx, store0,
                   prevBatch, rerun, emails, slept>>
    /\ UNCHANGED <<sharedVars, pureVars>>

\* Line 201 left out: the row is never committed, and conn.close() drops it.
CommitLost(p) ==
    /\ pc[p] = "commit"
    /\ Continue(p)
    /\ UNCHANGED <<driver, conn, pending, date_elements, appointments_to_send,
                   err, store0, prevBatch, rerun, emails, slept>>
    /\ UNCHANGED <<sharedVars, pureVars>>

\* Line 201: conn.commit().
Commit(p) ==
    /\ pc[p] = "commit"
    /\ store' = store \cup pending[p]
    /\ pending' = [pending EXCEPT ![p] = {}]
    /\ Continue(p)
    /\ UNCHANGED <<driver, conn, date_elements, appointments_to_send,
                   err, store0, prevBatch, rerun, emails, slept>>
    /\ UNCHANGED <<notifyCount, deliveredCount, pureVars>>

\* conn.commit() raises: the row stays uncommitted.
CommitFail(p) ==
    /\ pc[p] = "commit"
    /\ Except(p, "sqlite3.Error")
    /\ UNCHANGED <<driver, conn, pending, date_elements, idx,
                   appointments_to_send, store0, prevBatch, rerun, emails, slept>>
    /\ UNCHANGED <<sharedVars, pureVars>>

\* The identifiers an email lists.
Listed(list) == {list[k].appointment_string : k \in 1..Len(list)}

\* Lines 98-121: send_email(appointments) when the SMTP session succeeds
\* (delivered) and when it raises, which lines 120-121 only log.
send_email(appointments, delivered) ==
    /\ notifyCount' = [i \in Idents |->
                         IF i \in Listed(appointments)
                         THEN notifyCount[i] + 1 ELSE notifyCount[i]]
    /\ deliveredCount' = [i \in Idents |->
                            IF delivered /\ i \in Listed(appointments)
                            THEN deliveredCount[i] + 1 ELSE deliveredCount[i]]

\* Lines 203-204 without the test of line 203: the list is emailed also
\* when it is empty.
NotifyUnguarded(p) ==
    /\ pc[p] = "notify"
    /\ \E delivered \in BOOLEAN : send_email(appointments_to_send[p], delivered)
    /\ emails' = [emails EXCEPT ![p] = Append(@, appointments_to_send[p])]
    /\ pc' = [pc EXCEPT ![p] = "finally"]
    /\ UNCHANGED <<driver, conn, pending, date_elements, idx,
                   appointments_to_send, err, store0, prevBatch, rerun, slept>>
    /\ UNCHANGED <<store, pureVars>>

\* Lines 203-204 with a rollback: when the email is not delivered the rows
\* of the cycle are taken out of the table again.
NotifyRollback(p) ==
    /\ pc[p] = "notify"
    /\ appointments_to_send[p] # <<>>
    /\ \E delivered \in BOOLEAN :
         /\ send_email(appointments_to_send[p], delivered)
         /\ store' = IF delivered THEN store ELSE store0[p]
    /\ emails' = [emails EXCEPT ![p] = Append(@, appointments_to_send[p])]
    /\ pc' = [pc EXCEPT ![p] = "finally"]
    /\ UNCHANGED <<driver, conn, pending, date_elements, idx,
                   appointments_to_send, err, store0, prevBatch, rerun, slept>>
    /\ UNCHANGED pureVars

\* Lines 203-204: the list is not empty and is emailed.
Notify(p) ==
    /\ pc[p] = "notify"
    /\ appointments_to_send[p] # <<>>
    /\ \E delivered \in BOOLEAN : send_email(appointments_to_send[p], delivered)
    /\ emails' = [emails EXCEPT ![p] = Append(@, appointments_to_send[p])]
    /\ pc' = [pc EXCEPT ![p] = "finally"]
    /\ UNCHANGED <<driver, conn, pending, date_elements, idx,
                   appointments_to_send, err, store0, prevBatch, rerun, slept>>
    /\ UNCHANGED <<store, pureVars>>

\* Lines 205-206: nothing to email.
NotifyNothing(p) ==
    /\ pc[p] = "notify"
    /\ appointments_to_send[p] = <<>>
    /\ pc' = [pc EXCEPT ![p] = "finally"]
    /\ UNCHANGED <<driver, conn, pending, date_elements, idx,
                   appointments_to_send, err, store0, prevBatch, rerun,
                   emails, slept>>
    /\ UNCHANGED <<sharedVars, pureVars>>

\* Lines 210-212: driver.quit() and conn.close(), which drops what the
\* connection did not commit.
Finally(p) ==
    /\ pc[p] = "finally"
    /\ driver' = [driver EXCEPT ![p] = FALSE]
    /\ conn' = [conn EXCEPT ![p] = FALSE]
    /\ pending' = [pending EXCEPT ![p] = {}]
    /\ \E again \in BOOLEAN :
         prevBatch' = [prevBatch EXCEPT ![p] =
                         IF again /\ err[p] = "none" THEN {date_elements[p]}
                         ELSE NoBatch]
    /\ date_elements' = [date_elements EXCEPT ![p] = <<>>]
    /\ idx' = [idx EXCEPT ![p] = 1]
    /\ appointments_to_send' = [appointments_to_send EXCEPT ![p] = <<>>]
    /\ err' = [err EXCEPT ![p] = "none"]
    /\ store0' = [store0 EXCEPT ![p] = {}]
    /\ rerun' = [rerun EXCEPT ![p] = FALSE]
    /\ emails' = [emails EXCEPT ![p] = <<>>]
    /\ pc' = [pc EXCEPT ![p] = "sleep"]
    /\ UNCHANGED <<slept, sharedVars, pureVars>>

\* Lines 219-220: time.sleep(RUN_INTERVAL_MINUTES * 60).
Sleep(p) ==
    /\ pc[p] = "sleep"
    /\ pc' = [pc EXCEPT ![p] = "start"]
    /\ slept' = [slept EXCEPT ![p] = TRUE]
    /\ UNCHANGED <<driver, conn, pending, date_elements, idx,
                   appointments_to_send, err, store0, prevBatch, rerun, emails>>
    /\ UNCHANGED <<sharedVars, pureVars>>

\* The process is killed and started again: what it held in memory is gone,
\* the rows it committed to appointments.db stay.
Restart(p) ==
    /\ pc[p] # "start"
    /\ pc' = [pc EXCEPT ![p] = "start"]
    /\ driver' = [driver EXCEPT ![p] = FALSE]
    /\ conn' = [conn EXCEPT ![p] = FALSE]
    /\ pending' = [pending EXCEPT ![p] = {}]
    /\ date_elements' = [date_elements EXCEPT ![p] = <<>>]
    /\ idx' = [idx EXCEPT ![p] = 1]
    /\ appointments_to_send' = [appointments_to_send EXCEPT ![p] = <<>>]
    /\ err' = [err EXCEPT ![p] = "none"]
    /\ store0' = [store0 EXCEPT ![p] = {}]
    /\ prevBatch' = [prevBatch EXCEPT ![p] = NoBatch]
    /\ rerun' = [rerun EXCEPT ![p] = FALSE]
    /\ emails' = [emails EXCEPT ![p] = <<>>]
    /\ slept' = [slept EXCEPT ![p] = TRUE]
    /\ UNCHANGED <<sharedVars, pureVars>>

\* One step of the script itself in process p, whose extractions return one
\* of batches.
Run(p, batches) ==
    \/ StartDriver(p)
    \/ StartDriverFail(p)
    \/ InitDatabase(p)
    \/ InitDatabaseFail(p)
    \/ Extract(p, batches)
    \/ ExtractFail(p)
    \/ Filter(p)
    \/ FilterFail(p)
    \/ Select(p)
    \/ SelectFail(p)
    \/ Insert(p)
    \/ InsertFail(p)
    \/ Commit(p)
    \/ CommitFail(p)
    \/ Notify(p)
    \/ NotifyNothing(p)
    \/ Finally(p)
    \/ Sleep(p)

\* One step of process p: of the script, or the process is killed.
Step(p, batches) ==
    \/ Run(p, batches)
    \/ Restart(p)

\* What an extraction can return when the script runs alone.
SeqBatches == Batches(Elements, MaxBatch)

\* What an extraction can return when two processes run.
ConcBatches == Batches(ConcElements, MaxBatchConc)

\* The script as it is meant to run: one process, cycle after cycle.
Next == \E p \in {1} : Step(p, SeqBatches)

Spec == Init /\ [][Next]_vars

\* Two processes started on the same appointments.db.
NextConc == \E p \in Procs : Step(p, ConcBatches)

SpecConc == Init /\ [][NextConc]_vars

\* What an extraction can return in the runs checked for progress.
LiveBatches == Batches({SunC, SatB10, SatBad}, MaxBatchLive)

NextLive == \E p \in {1} : Step(p, LiveBatches)

\* The one process under the scheduling an interpreter gives it: the script
\* has one thread, no statement of lines 147-223 waits for anything but the
\* time.sleep of line 220, which returns, and the calls to the browser and
\* to SMTP return or raise; so a step of the script that can be taken is
\* taken.  Nothing says that the process is ever killed.
SpecLive == Init /\ [][NextLive]_vars /\ WF_vars(Run(1, LiveBatches))

\* ------------------------------------------------ the functions on their own

\* A 24-hour string and a day are drawn; the two functions are applied to them.
InitTime ==
    /\ ProcInit
    /\ store = {}
    /\ notifyCount = [i \in Idents |-> 0]
    /\ deliveredCount = [i \in Idents |-> 0]
    /\ arg_time \in TimeStrs
    /\ arg_day \in Days
    /\ stage = "input"
    /\ result = NoResult

\* Line 182: start_time = convert_24hr_to_12hr(...).
ApplyConvert ==
    /\ stage = "input"
    /\ stage' = "converted"
    /\ result' = convert_24hr_to_12hr(arg_time)
    /\ UNCHANGED <<arg_time, arg_day, procVars, sharedVars>>

\* Lines 182-189: the conversion, the cutoff and the comparison.
ApplyTimeRule ==
    /\ stage = "input"
    /\ stage' = "compared"
    /\ result' = TimeRule(arg_day, arg_time)
    /\ UNCHANGED <<arg_time, arg_day, procVars, sharedVars>>

NextTime == ApplyConvert \/ ApplyTimeRule

SpecTime == InitTime /\ [][NextTime]_vars

\* ---------------------------------------------------- what the claims speak of

\* The identifiers of a set of rows.
Ids(rows) == {r.appointment_string : r \in rows}

\* A well-formed 24-hour time: four digits, the hour at most 23, the minute
\* at most 59.
WellFormed(t) ==
    /\ Len(t) = 4
    /\ \A k \in 1..4 : IsDigit(t[k])
    /\ 10 * DigitVal(t[1]) + DigitVal(t[2]) <= 23
    /\ 10 * DigitVal(t[3]) + DigitVal(t[4]) <= 59

\* The minutes since midnight of a well-formed 24-hour time.
MinutesOfDay(t) ==
    60 * (10 * DigitVal(t[1]) + DigitVal(t[2]))
    + 10 * DigitVal(t[3]) + DigitVal(t[4])

\* The thresholds of the day types, in minutes since midnight: 9:00 AM on
\* Sat and Sun, 4:30 PM on the other days.
ThresholdMinutes(day) ==
    IF day \in {"Sat", "Sun"} THEN 9 * 60 ELSE 16 * 60 + 30

\* Whether the code lets an element through the time rule.
Passes(e) ==
    FilterOutcome(e, convert_24hr_to_12hr(e.endtime)) = "pass"

\* The places of a batch whose identifier is ident and that pass.
PassIdx(batch, ident) ==
    {i \in 1..Len(batch) :
        batch[i].appointment_string = ident /\ Passes(batch[i])}

\* The places of a batch that pass the time rule and are novel: not in the
\* rows seen, and not after a passing record of the same identifier.
NovelIdx(batch, seen) ==
    {i \in 1..Len(batch) :
        /\ Passes(batch[i])
        /\ batch[i].appointment_string \notin Ids(seen)
        /\ \A j \in 1..(i - 1) :
              ~(Passes(batch[j])
                /\ batch[j].appointment_string = batch[i].appointment_string)}

\* The k-th smallest number of a set of numbers.
Kth(S, k) == CHOOSE i \in S : Cardinality({j \in S : j <= i}) = k

\* The entries of the novel records of a batch, in the order of the batch.
NovelEntries(batch, seen) ==
    [k \in 1..Cardinality(NovelIdx(batch, seen)) |->
        Entry(batch[Kth(NovelIdx(batch, seen), k)].appointment_string,
              batch[Kth(NovelIdx(batch, seen), k)].instructor)]

\* The filter step of process 1's cycle has run over the whole batch.
Filtered == pc[1] = "notify"

\* ------------------------------------------------------------------ claims

\* C1: across cycles and restarts of the one process, an identifier is in at
\* most one notification; an identifier that is in the store when a cycle
\* begins is never placed in that cycle's notification list, and no
\* identifier is placed in a list twice.
C1_NotifiedAtMostOnce ==
    /\ \A i \in Idents : notifyCount[i] <= 1
    /\ \A k \in 1..Len(appointments_to_send[1]) :
          /\ appointments_to_send[1][k].appointment_string \notin Ids(store0[1])
          /\ \A j \in 1..(k - 1) :
                appointments_to_send[1][j].appointment_string
                  # appointments_to_send[1][k].appointment_string

\* C1's case: an identifier that was notified in an earlier cycle is offered
\* again, and the cycle's filter step ends with an empty list.
C1_Witness ==
    /\ Filtered
    /\ notifyCount[<<"Sun", "C">>] = 1
    /\ <<"Sun", "C">> \in Ids(store0[1])
    /\ date_elements[1] = <<SunC>>
    /\ appointments_to_send[1] = <<>>

\* C2: when the filter step has run without failure over a batch that holds
\* a passing record not yet in the store, its result is not empty; when it
\* has run over the batch of the cycle that completed just before, its
\* result is empty and the store is as it was when the cycle began.
C2_SecondRunEmpty ==
    Filtered =>
      /\ NovelIdx(date_elements[1], store0[1]) # {}
            => appointments_to_send[1] # <<>>
      /\ rerun[1] => appointments_to_send[1] = <<>> /\ store = store0[1]

\* C2's case: the second run over a batch that holds passing records.
C2_Witness ==
    /\ Filtered
    /\ rerun[1]
    /\ date_elements[1] = <<SatB10, SunC>>
    /\ Ids(store) = {<<"Sat", "B">>, <<"Sun", "C">>}
    /\ appointments_to_send[1] = <<>>

\* C3: two processes that handle the same identifier never both notify it.
C3_NeverNotifiedTwice == \A i \in Idents : notifyCount[i] <= 1

\* C4: a record with a malformed start or end time is skipped on its own:
\* when a cycle ends with no failure other than malformed times, every
\* well-formed record of the batch that passes the time rule and was not in
\* the store has been notified and is in the store.
C4_OnlyBadRecordSkipped ==
    (pc[1] = "finally" /\ err[1] \in {"none", "ValueError"}) =>
      \A i \in 1..Len(date_elements[1]) :
        LET e == date_elements[1][i]
        IN  (/\ WellFormed(e.starttime)
             /\ WellFormed(e.endtime)
             /\ Passes(e)
             /\ e.appointment_string \notin Ids(store0[1]))
            => /\ notifyCount[e.appointment_string] >= 1
               /\ e.appointment_string \in Ids(store)

\* The batch of the end-to-end scenario: A Mon 1600, B Sat 0800, C Sun 1000.
Scenario == <<MonA, SatB, SunC>>

\* C5 as stated: from an empty store the scenario's accepted set is {A, C}.
C5_AcceptsAandC ==
    (Filtered /\ store0[1] = {} /\ date_elements[1] = Scenario) =>
      Listed(appointments_to_send[1]) = {<<"Mon", "A">>, <<"Sun", "C">>}

\* C5 as amended: from an empty store the scenario's accepted set is {C}; A
\* starts at 4:00 PM, before the weekday threshold of 4:30 PM.
C5_AcceptsOnlyC ==
    (Filtered /\ store0[1] = {} /\ date_elements[1] = Scenario) =>
      /\ Listed(appointments_to_send[1]) = {<<"Sun", "C">>}
      /\ Ids(store) = {<<"Sun", "C">>}

\* C5's case: the scenario has been filtered from an empty store.
C5_Witness ==
    /\ Filtered
    /\ store0[1] = {}
    /\ date_elements[1] = Scenario
    /\ appointments_to_send[1] = <<Entry(<<"Sun", "C">>, "I1")>>

\* C6: for every HHMM of the 24-hour clock and every day, the time rule
\* raises nothing and accepts exactly when the minutes since midnight are at
\* least the threshold of the day type.
C6_TimeRuleIsThreshold ==
    (stage = "compared" /\ arg_time \in ClockTimes) =>
      result = [exc |-> FALSE,
                val |-> MinutesOfDay(arg_time) >= ThresholdMinutes(arg_day)]

\* C6's case: a start time equal to the weekday threshold is accepted.
C6_Witness ==
    /\ stage = "compared"
    /\ arg_day = "Mon"
    /\ arg_time = <<"1", "6", "3", "0">>
    /\ result.val = TRUE

\* The hours of the 12-hour clock as they are written.
HourNames == << <<"1">>, <<"2">>, <<"3">>, <<"4">>, <<"5">>, <<"6">>, <<"7">>,
                <<"8">>, <<"9">>, <<"1", "0">>, <<"1", "1">>, <<"1", "2">> >>

\* The 12-hour time that matches a well-formed 24-hour time: 12 AM for hour
\* 0, the hour AM for 1..11, 12 PM for 12, the hour less 12 PM for 13..23.
Matching12(t) ==
    LET h == 10 * DigitVal(t[1]) + DigitVal(t[2])
    IN  (IF h = 0 \/ h = 12 THEN HourNames[12]
         ELSE IF h <= 11 THEN HourNames[h] ELSE HourNames[h - 12])
        \o <<":", t[3], t[4], " ">>
        \o (IF h <= 11 THEN <<"A", "M">> ELSE <<"P", "M">>)

\* C7: convert_24hr_to_12hr maps every HHMM of the 24-hour clock to the
\* matching 12-hour time, the four named cases among them.
C7_ConvertMatches ==
    (stage = "converted" /\ arg_time \in ClockTimes) =>
      /\ result = [exc |-> FALSE, val |-> Matching12(arg_time)]
      /\ arg_time = <<"0", "0", "0", "0">>
            => result.val = <<"1", "2", ":", "0", "0", " ", "A", "M">>
      /\ arg_time = <<"1", "2", "0", "0">>
            => result.val = <<"1", "2", ":", "0", "0", " ", "P", "M">>
      /\ arg_time = <<"1", "5", "3", "0">>
            => result.val = <<"3", ":", "3", "0", " ", "P", "M">>
      /\ arg_time = <<"0", "9", "3", "0">>
            => result.val = <<"9", ":", "3", "0", " ", "A", "M">>

\* C7's case: hour 12 has been converted.
C7_Witness ==
    /\ stage = "converted"
    /\ arg_time = <<"1", "2", "0", "0">>
    /\ result.val = <<"1", "2", ":", "0", "0", " ", "P", "M">>

\* C8: no record with a malformed start or end time gets through the time
\* rule, into the store or into a notification.
C8_MalformedRejected ==
    \A p \in Procs :
      pc[p] \in {"select", "insert", "commit"} =>
        /\ WellFormed(date_elements[p][idx[p]].starttime)
        /\ WellFormed(date_elements[p][idx[p]].endtime)

\* C9: when the filter step has run over a batch with two or more passing
\* records of an identifier that was not in the store, exactly one entry of
\* the list has that identifier, it is the entry of the first of them, and
\* the store holds one row of the identifier, that of the first.
C9_FirstDuplicateWins ==
    Filtered =>
      \A i \in Idents :
        (i \notin Ids(store0[1])
         /\ Cardinality(PassIdx(date_elements[1], i)) >= 2) =>
          LET first == date_elements[1][First(PassIdx(date_elements[1], i))]
              at == {k \in 1..Len(appointments_to_send[1]) :
                       appointments_to_send[1][k].appointment_string = i}
          IN  /\ Cardinality(at) = 1
              /\ \A k \in at :
                    appointments_to_send[1][k].instructor = first.instructor
              /\ Cardinality(RowsOf(store, i)) = 1
              /\ \A r \in RowsOf(store, i) : r.instructor = first.instructor

\* C9's case: the slot of SunC twice in one batch, first by instructor I2.
C9_Witness ==
    /\ Filtered
    /\ date_elements[1] = <<SunC24, SunC>>
    /\ store0[1] = {}
    /\ appointments_to_send[1] = <<Entry(<<"Sun", "C">>, "I2")>>

\* C10: when the filter step has run, the list holds the entries of exactly
\* the records that passed the time rule and were novel, in input order.
C10_ListIsNovelInOrder ==
    Filtered =>
      appointments_to_send[1] = NovelEntries(date_elements[1], store0[1])

\* C10's case: two records accepted around a rejected one.
C10_Witness ==
    /\ Filtered
    /\ date_elements[1] = <<SunC, MonA, SatB10>>
    /\ appointments_to_send[1]
         = <<Entry(<<"Sun", "C">>, "I1"), Entry(<<"Sat", "B">>, "I2")>>

\* The cycle of process 1 was ended by an exception of the database (the
\* SELECT, the INSERT or the commit) and is about to run its finally block.
StoreFailed == pc[1] = "finally" /\ err[1] = "sqlite3.Error"

\* C11: when the database raises in the middle of a batch, the cycle has
\* called send_email not once, no identifier of its list has ever been
\* emailed, the rows the cycle added to the store are of records before the
\* one that failed, and the next step ends the cycle (the finally block,
\* then the sleep of the main loop) without touching store or emails.
C11_StoreFailureAborts ==
    /\ [](StoreFailed =>
            /\ emails[1] = <<>>
            /\ \A k \in 1..Len(appointments_to_send[1]) :
                  notifyCount[appointments_to_send[1][k].appointment_string] = 0
            /\ Ids(store) \ Ids(store0[1])
                  \subseteq {date_elements[1][j].appointment_string :
                               j \in 1..(idx[1] - 1)})
    /\ [][StoreFailed =>
            /\ pc'[1] \in {"sleep", "start"}
            /\ store' = store
            /\ notifyCount' = notifyCount]_vars

\* C11's case: the first record was accepted and committed, and the
\* database raised at the second.
C11_Witness ==
    /\ StoreFailed
    /\ idx[1] = 2
    /\ date_elements[1] = <<SunC, SatB10>>
    /\ appointments_to_send[1] # <<>>
    /\ Ids(store) = {<<"Sun", "C">>}
    /\ store0[1] = {}

\* The cycle of process 1 went through lines 165-206 without an exception
\* and is about to run its finally block.
Completed == pc[1] = "finally" /\ err[1] = "none"

\* C12: a cycle that completes without an exception has called send_email
\* once, with its whole list (the entries of the novel passing records),
\* when the list is not empty, and not at all when it is empty; when the
\* extraction returned no elements the list is empty, the store is as it
\* was and send_email was not called.  No cycle calls send_email before it
\* has completed.
C12_NotifiedOnceIffNonEmpty ==
    /\ Completed =>
          /\ appointments_to_send[1]
                = NovelEntries(date_elements[1], store0[1])
          /\ emails[1] = IF appointments_to_send[1] # <<>>
                         THEN <<appointments_to_send[1]>> ELSE <<>>
          /\ date_elements[1] = <<>> =>
                /\ appointments_to_send[1] = <<>>
                /\ store = store0[1]
                /\ emails[1] = <<>>
    /\ ~Completed => emails[1] = <<>>

\* C12's case: a cycle accepted two records and emailed them in one call.
C12_Witness ==
    /\ Completed
    /\ date_elements[1] = <<SunC, MonA, SatB10>>
    /\ emails[1] = << <<Entry(<<"Sun", "C">>, "I1"),
                        Entry(<<"Sat", "B">>, "I2")>> >>

\* A cycle whose extraction returned nothing has completed, with rows of
\* earlier cycles in the store.
C12_WitnessEmpty ==
    /\ Completed
    /\ date_elements[1] = <<>>
    /\ store # {}

\* The identifiers of emails that were not delivered: listed in more calls
\* of send_email than were delivered.
Undelivered == {i \in Idents : notifyCount[i] > deliveredCount[i]}

\* C13: a call of send_email, delivered or not, leaves the cycle without an
\* exception on its way to the finally block and leaves every row of the
\* store as it is; the identifiers of an email that was not delivered are in
\* the store from then on and are in no email of a later cycle.
C13_DeliveryFailureKeepsRows ==
    /\ [](\A i \in Undelivered : i \in Ids(store) /\ notifyCount[i] = 1)
    /\ [][notifyCount' # notifyCount =>
            /\ store' = store
            /\ pc'[1] = "finally"
            /\ err'[1] = "none"]_vars
    /\ [][\A i \in Undelivered :
            i \in Undelivered' /\ RowsOf(store', i) = RowsOf(store, i)]_vars

\* C13's case: the email of Sun C was not delivered, and a later cycle was
\* offered Sun C again and has completed.
C13_Witness ==
    /\ Completed
    /\ <<"Sun", "C">> \in Undelivered
    /\ date_elements[1] = <<SunC>>
    /\ appointments_to_send[1] = <<>>

\* C14: whichever step of a cycle raises, the main loop comes back to its
\* call of run_scraper (line 218) again and again: no exception ends the
\* script.
C14_LoopStaysAlive == []<>(pc[1] = "start")

\* C14's case: initialize_database raised, outside the try of run_scraper,
\* and the main loop is at its call of run_scraper again.
C14_Witness ==
    /\ pc[1] = "start"
    /\ driver[1]
    /\ ~slept[1]
    /\ store # {}

\* C15: run_scraper is called (line 218) only when the process was just
\* launched or time.sleep (line 220) has returned since the call before:
\* between two cycles there is a sleep, also after a cycle that failed.
C15_SleepBetweenCycles ==
    [][(pc[1] = "start" /\ pc'[1] = "init_db") => slept[1]]_vars

\* The cycle of process 1 was ended by an exception of the browser: of the
\* navigation or a wait (lines 165-178), or of get_attribute on a slot
\* element (lines 181-184).
ExtractionFailed ==
    /\ pc[1] = "finally"
    /\ err[1] \in {"ExtractionError", "WebDriverException"}

\* C16: a cycle whose extraction failed has committed nothing: the store is
\* what it was before the cycle.
C16_ExtractionFailureKeepsStore == ExtractionFailed => store = store0[1]

\* C17: whenever process 1 is between two cycles (it sleeps, or is at its
\* call of run_scraper), no browser session of an earlier cycle is open.
C17_SessionClosedBetweenCycles ==
    pc[1] \in {"sleep", "start"} => ~driver[1]

\* C18: in every state, a row of the store whose sent_email is 1 is the row
\* of an identifier that an email listed and that was delivered.
C18_FlagMeansDispatched ==
    \A r \in store :
      r.sent_email = 1 =>
        /\ notifyCount[r.appointment_string] >= 1
        /\ deliveredCount[r.appointment_string] >= 1

\* C18 between cycles only: when process 1 sleeps after a cycle, a row whose
\* sent_email is 1 is the row of an identifier that an email listed.
C18_FlagMeansDispatchedAfterCycle ==
    pc[1] = "sleep" =>
      \A r \in store :
        r.sent_email = 1 => notifyCount[r.appointment_string] >= 1

\* Whether the start time a row holds is at or after the cutoff of the
\* row's day, as line 188 compares them.
RowPassed(r) ==
    is_time_greater_or_equal(
        r.start_time_12hr, start_time_limit(DayOfWeek(r.appointment_string)))
      = [exc |-> FALSE, val |-> TRUE]

\* C19: in every state the store has at most one row of an identifier and
\* every row is of a record that passed the time rule; no step changes or
\* removes a row that is in the store.
C19_RowsUniquePassedAndKept ==
    /\ [](\A r \in store :
            /\ RowsOf(store, r.appointment_string) = {r}
            /\ RowPassed(r))
    /\ [][store \subseteq store']_vars

\* C19's case: the store holds the row of Sat B at 10:00 and a later cycle
\* was offered Sat B at 08:00, which the time rule rejects, and Sun C.
C19_Witness ==
    /\ Completed
    /\ date_elements[1] = <<SatB, SunC>>
    /\ Ids(store0[1]) = {<<"Sat", "B">>}
    /\ Ids(store) = {<<"Sat", "B">>, <<"Sun", "C">>}

====
